---- MODULE Spec2Model ----
(***************************************************************************)
(* ArdMediathekDownloader (ard_media_downloader.py): one downloader object *)
(* and the HTTP server it talks to.                                        *)
(*                                                                         *)
(* Strings are sequences of tokens.  A token stands for a fixed run of     *)
(* characters; the token "," is the only one that holds a comma, "http:"   *)
(* and "https:" are the only ones that start with those prefixes, "/" and  *)
(* "." are the path separator and the dot of a file name.  So              *)
(* `"," in s` is "some token of s is the comma", s.startswith("http:") is  *)
(* "the first token of s is http:".                                        *)
(***************************************************************************)
EXTENDS Integers, Sequences, FiniteSets, TLC

VARIABLES
    url,                \* self.url
    subtitle_url,       \* self.subtitle_url
    _filename,          \* self._filename
    _derive_filename,   \* self._derive_filename
    _quality,           \* self._quality
    content_type,       \* content-type header the media endpoint answers with
    json,               \* body the media endpoint answers with
    content_length,     \* Content-Length the server reports, per host
    medias,             \* tier mapping built by the last resolve (or NoMapping)
    videos_by_size,     \* size -> URL mapping built by the last resolve
    ret,                \* outcome of the last operation
    http,               \* HTTP requests issued by the last operation, in order
    disk,               \* files written by the last operation, in order
    quality_set         \* history: the quality setter has been called

vars == <<url, subtitle_url, _filename, _derive_filename, _quality, content_type,
          json, content_length, medias, videos_by_size, ret, http, disk, quality_set>>

----------------------------------------------------------------------------
(* Bounds of the model *)

MaxHosts == 4       \* stream URLs a descriptor of the size family lists
MaxSize == 4        \* largest Content-Length the server reports
MaxStreams == 2     \* stream entries of a descriptor of the walk family
MaxList == 2        \* URLs in a list-valued stream entry
MaxQuality == 4     \* largest quality tier a caller sets

----------------------------------------------------------------------------
(* Values *)

None == <<"<None>">>

NoMapping == <<>>

HostNames == <<"//a", "//b", "//c", "//d", "//e", "//f">>

Hosts(n) == {HostNames[i] : i \in 1..n}

\* The i-th stream URL as the descriptor spells it: without a scheme, with
\* http:, with https:.
RawUrl(i) ==
    CASE i % 3 = 1 -> <<HostNames[i]>>
      [] i % 3 = 2 -> <<"http:", HostNames[i]>>
      [] OTHER     -> <<"https:", HostNames[i]>>

Comma == <<",">>

Joined == RawUrl(1) \o Comma \o RawUrl(2)

Str(s) == [type |-> "str", val |-> s]

List(l) == [type |-> "list", val |-> l]

SeqsUpTo(S, n) == UNION {[1..k -> S] : k \in 0..n}

----------------------------------------------------------------------------
(* String helpers *)

\* `"," in s` for a str s
HasComma(s) == \E i \in 1..Len(s) : s[i] = ","

startswith(s, prefix) == Len(s) >= 1 /\ s[1] = prefix

fix_url(u) ==
    IF ~startswith(u, "http:") /\ ~startswith(u, "https:")
    THEN <<"http:">> \o u
    ELSE u

\* Python truthiness of an Optional[str]
Falsy(s) == s = None \/ s = <<>>

HostOf(u) == u[Len(u)]

----------------------------------------------------------------------------
(* The server *)

\* requests.head(url).headers.get("Content-Length"), as the integer it spells
ContentLengthOf(u) == content_length[HostOf(u)]

\* requests.get(video_url): the bytes the server sends for a stream URL
VideoBody(u) == [bytes_of |-> u, length |-> ContentLengthOf(u)]

\* requests.get(subtitle_url).text
SubtitleText(u) == <<"<tt>", "subtitles of">> \o u

\* The <title> of the page at self.url
PageTitle == <<"Tatort", " ", "|", " ", "Das Erste">>

MediaEndpoint(doc_id) ==
    <<"http:", "//www.ardmediathek.de", "/play/media/", doc_id, "?devicetype=pc&features">>

Get(u) == [method |-> "GET", url |-> u]

Head_(u) == [method |-> "HEAD", url |-> u]

----------------------------------------------------------------------------
(* _get_all_stream_urls_grouped_by_quality *)

\* `"," in stream_url_or_list_of_urls`: a substring test when the value is a
\* str, a membership test (some element equals ",") when it is a list.
CommaIn(x) ==
    IF x.type = "str"
    THEN HasComma(x.val)
    ELSE \E i \in 1..Len(x.val) : x.val[i] = Comma

\* The URLs of one stream entry whose size is requested, in order.
StreamUrls(stream) ==
    LET x == stream._stream IN
    IF CommaIn(x) THEN <<>>
    ELSE IF x.type = "str" THEN <<x.val>>
    ELSE SelectSeq(x.val, LAMBDA u : ~HasComma(u))

RECURSIVE Flatten(_)
Flatten(ss) == IF ss = <<>> THEN <<>> ELSE Head(ss) \o Flatten(Tail(ss))

MediumUrls(medium) ==
    LET streams == medium._mediaStreamArray IN
    Flatten([i \in 1..Len(streams) |-> StreamUrls(streams[i])])

AllUrls(ms) == Flatten([i \in 1..Len(ms) |-> MediumUrls(ms[i])])

get_size_of_video(u) == ContentLengthOf(fix_url(u))

\* a faulty variant of Put: the first URL seen at a size is kept
PutFirst(d, s, u) ==
    [k \in DOMAIN d \cup {s} |-> IF k \in DOMAIN d THEN d[k] ELSE u]

\* videos_by_size[s] = u
Put(d, s, u) ==
    [k \in DOMAIN d \cup {s} |-> IF k = s THEN u ELSE d[k]]

RECURSIVE Group(_, _)
Group(urls, d) ==
    IF urls = <<>> THEN d
    ELSE Group(Tail(urls), Put(d, get_size_of_video(Head(urls)), Head(urls)))

\* a faulty variant of PositiveKeys: a size of zero is kept
NonNegativeKeys(d) == {k \in DOMAIN d : k >= 0}

PositiveKeys(d) == {k \in DOMAIN d : k > 0}

RECURSIVE sorted(_)
sorted(S) ==
    IF S = {} THEN <<>>
    ELSE LET m == CHOOSE x \in S : \A y \in S : x <= y
         IN  <<m>> \o sorted(S \ {m})

\* a faulty variant of KeepLargest: keys[:3]
KeepSmallest(keys) ==
    IF Len(keys) > 3 THEN SubSeq(keys, 1, 3) ELSE keys

\* keys[-3:] when there are more than three
KeepLargest(keys) ==
    IF Len(keys) > 3 THEN SubSeq(keys, Len(keys) - 2, Len(keys)) ELSE keys

\* a faulty variant of MiddleIndex: (len(keys) - 1) // 2
LowerMiddleIndex(n) == (n - 1) \div 2

\* len(keys) // 2, a 0-based index
MiddleIndex(n) == n \div 2

\* a faulty variant of TierMapping: a tier exists only when that many sizes do
TierMappingBySizes(keys, d) ==
    [t \in 1..Len(keys) |-> d[keys[t]]]

\* {1: get(keys[0]), 2: get(keys[len(keys) // 2]), 3: get(keys[-1])}
TierMapping(keys, d) ==
    (1 :> d[keys[1]]) @@ (2 :> d[keys[MiddleIndex(Len(keys)) + 1]])
        @@ (3 :> d[keys[Len(keys)]])

_get_all_stream_urls_grouped_by_quality(ms) ==
    LET urls == AllUrls(ms)
        d    == Group(urls, <<>>)
        keys == KeepLargest(sorted(PositiveKeys(d)))
    IN  [heads          |-> [i \in 1..Len(urls) |-> Head_(fix_url(urls[i]))],
         videos_by_size |-> d,
         exc            |-> IF keys = <<>> THEN "IndexError" ELSE "none",
         result         |-> IF keys = <<>> THEN NoMapping ELSE TierMapping(keys, d)]

----------------------------------------------------------------------------
(* Outcome of a call: the exception it raised ("none" when it returned), the
   line that raised it, the tier keys its message lists, the value returned. *)

Returned(v) == [exc |-> "none", line |-> 0, keys |-> {}, value |-> v]

Raised(e, l, k) == [exc |-> e, line |-> l, keys |-> k, value |-> None]

\* a faulty variant of _get_video_by_quality: an absent tier falls back to the best
\* available stream
GetVideoByQualityOrBest(media) ==
    LET g == _get_all_stream_urls_grouped_by_quality(media) IN
    IF g.exc # "none" THEN [out |-> Raised(g.exc, 135, {}), g |-> g]
    ELSE IF _quality \in DOMAIN g.result
    THEN [out |-> Returned(fix_url(g.result[_quality])), g |-> g]
    ELSE [out |-> Returned(fix_url(g.result[3])), g |-> g]

_get_video_by_quality(media) ==
    LET g == _get_all_stream_urls_grouped_by_quality(media) IN
    IF g.exc # "none" THEN [out |-> Raised(g.exc, 135, {}), g |-> g]
    ELSE IF _quality \in DOMAIN g.result
    THEN [out |-> Returned(fix_url(g.result[_quality])), g |-> g]
    ELSE [out |-> Raised("RuntimeError", 109, DOMAIN g.result), g |-> g]

_get_video_url(j) == _get_video_by_quality(j._mediaArray)

\* a faulty variant of _get_media_json_by_document_id: the content type is not looked at
GetMediaJsonUnchecked(doc_id) == Returned(json)

\* `'application/json' in r.headers.get('content-type')`: headers.get gives
\* None for an absent header, and `in None` raises TypeError.
_get_media_json_by_document_id(doc_id) ==
    IF content_type = None THEN Raised("TypeError", 91, {})
    ELSE IF ~(\E i \in 1..Len(content_type) : content_type[i] = "application/json")
    THEN Raised("RuntimeError", 92, {})
    ELSE Returned(json)

\* re.search(r'documentId=(\d+)', self.url): the digits, or None
DocumentId(u) ==
    IF \E i \in 1..(Len(u) - 1) : u[i] = "documentId=" /\ u[i + 1] = "123"
    THEN "123"
    ELSE "<None>"

\* get_video_url: the outcome, the subtitle URL self.subtitle_url holds after
\* it, the requests it issued and the mappings it built.
get_video_url ==
    LET doc_id == DocumentId(url) IN
    IF doc_id = "<None>"
    THEN [out |-> Raised("RuntimeError", 79, {}), subtitle_url |-> subtitle_url,
          http |-> <<>>, medias |-> NoMapping, videos_by_size |-> <<>>]
    ELSE
    LET r == _get_media_json_by_document_id(doc_id) IN
    IF r.exc # "none"
    THEN [out |-> r, subtitle_url |-> subtitle_url,
          http |-> <<Get(MediaEndpoint(doc_id))>>,
          medias |-> NoMapping, videos_by_size |-> <<>>]
    ELSE
    LET j == r.value
        v == _get_video_url(j)
    IN  [out |-> v.out,
         subtitle_url |-> IF "_subtitleUrl" \in DOMAIN j THEN j._subtitleUrl
                          ELSE subtitle_url,
         http |-> <<Get(MediaEndpoint(doc_id))>> \o v.g.heads,
         medias |-> v.g.result, videos_by_size |-> v.g.videos_by_size]

----------------------------------------------------------------------------
(* File names: "/" and "." are tokens of their own *)

Cwd == <<"/", "home">>

RECURSIVE rfind(_, _)
\* the last index of token t in p, 0 when there is none
rfind(p, t) ==
    IF p = <<>> THEN 0
    ELSE IF p[Len(p)] = t THEN Len(p)
    ELSE rfind(SubSeq(p, 1, Len(p) - 1), t)

\* os.path.splitext(p)[0]: cut at the last dot, when it comes after the last
\* separator and something other than dots stands between the two
splitext0(p) ==
    LET sepIndex == rfind(p, "/")
        dotIndex == rfind(p, ".")
    IN  IF dotIndex > sepIndex
           /\ \E i \in (sepIndex + 1)..(dotIndex - 1) : p[i] # "."
        THEN SubSeq(p, 1, dotIndex - 1)
        ELSE p

\* os.path.abspath(os.path.expanduser(f)) for an f without "~", ".." or "//"
abspath(f) == IF startswith(f, "/") THEN f ELSE Cwd \o <<"/">> \o f

\* the filename setter: a falsy value leaves the field alone
SetterFilename(f) == IF f = <<>> THEN _filename ELSE abspath(f)

default_filename == <<"video", ".", "mp4">>

RECURSIVE find(_, _, _)
\* the first index >= i of token t in p, 0 when there is none
find(p, t, i) ==
    IF i > Len(p) THEN 0 ELSE IF p[i] = t THEN i ELSE find(p, t, i + 1)

\* title.partition("|")[0]
partition0(t) ==
    LET i == find(t, "|", 1) IN IF i = 0 THEN t ELSE SubSeq(t, 1, i - 1)

RECURSIVE strip(_)
strip(t) ==
    IF t = <<>> THEN t
    ELSE IF Head(t) = " " THEN strip(Tail(t))
    ELSE IF t[Len(t)] = " " THEN strip(SubSeq(t, 1, Len(t) - 1))
    ELSE t

\* slugify on tokens: words are lower-cased, blanks inside become hyphens
slugify(t) ==
    [i \in 1..Len(t) |->
        CASE t[i] = " "         -> "-"
          [] t[i] = "Tatort"    -> "tatort"
          [] t[i] = "Das Erste" -> "das-erste"
          [] OTHER              -> t[i]]

_get_filename_from_url == slugify(strip(partition0(PageTitle))) \o <<".", "mp4">>

\* _determine_filename: the file name after it and the requests it issued
_determine_filename ==
    IF _filename = None
    THEN [filename |-> SetterFilename(Cwd \o <<"/">> \o
                          (IF _derive_filename THEN _get_filename_from_url
                           ELSE default_filename)),
          http |-> IF _derive_filename THEN <<Get(url)>> ELSE <<>>]
    ELSE [filename |-> _filename, http |-> <<>>]

----------------------------------------------------------------------------
(* download_by_video_url and get_subtitles *)

\* requests.get(video_url, stream=True), then every chunk written to self.filename
download_by_video_url(filename, video_url) ==
    [http |-> <<Get(video_url)>>,
     disk |-> <<[path |-> filename, mode |-> "wb", data |-> VideoBody(video_url)]>>]

\* get_subtitles: the outcome, the requests issued and the files written
get_subtitles ==
    IF Falsy(subtitle_url)
    THEN [out |-> Raised("RuntimeError", 201, {}), http |-> <<>>, disk |-> <<>>]
    ELSE IF _filename = None
    THEN [out |-> Raised("TypeError", 204, {}),
          http |-> <<Get(subtitle_url)>>, disk |-> <<>>]
    ELSE [out |-> Returned(None),
          http |-> <<Get(subtitle_url)>>,
          disk |-> <<[path |-> splitext0(_filename) \o <<".", "srt">>, mode |-> "w",
                      data |-> SubtitleText(subtitle_url)]>>]

----------------------------------------------------------------------------
(* What the server can hold *)

Medium(values) ==
    [_mediaStreamArray |-> [i \in 1..Len(values) |-> [_stream |-> values[i]]]]

\* n stream URLs, each a str, the first k in one media entry and the rest in
\* a second one
SplitDescriptor(n, k) ==
    << Medium([i \in 1..k |-> Str(RawUrl(i))]),
       Medium([i \in 1..(n - k) |-> Str(RawUrl(k + i))]) >>

WalkStrings == {RawUrl(1), RawUrl(2), Comma, Joined}

WalkElements == {RawUrl(1), RawUrl(2), Comma}

WalkEntries ==
    {Str(u) : u \in WalkStrings} \cup {List(l) : l \in SeqsUpTo(WalkElements, MaxList)}

PageUrl == <<"https:", "//www.ardmediathek.de", "/tv/video?", "documentId=", "123">>

PageUrlWithoutId == <<"https:", "//www.ardmediathek.de", "/tv/video">>

SubtitleUrl == <<"http:", "//www.ardmediathek.de", "/subtitle/", "123">>

JsonContentType == <<"application/json", ";charset=utf-8">>

ContentTypes == {JsonContentType, <<"text/html">>, None}

\* the media endpoint's body: with no subtitle key, with an empty one, with a URL
Bodies(desc) ==
    { [_mediaArray |-> desc],
      [_mediaArray |-> desc, _subtitleUrl |-> <<>>],
      [_mediaArray |-> desc, _subtitleUrl |-> SubtitleUrl] }

LifeTables ==
    { [h \in Hosts(MaxHosts) |-> 0], [h \in Hosts(MaxHosts) |-> 1],
      [h \in Hosts(MaxHosts) |-> CHOOSE i \in 1..MaxHosts : HostNames[i] = h] }

FilenameInputs == { <<>>, <<"v1", ".", "2", "/", "clip">> }

Qualities == 1..MaxQuality

----------------------------------------------------------------------------
(* The downloader *)

\* a faulty variant of DefaultQuality: the middle tier
MiddleQuality == 1 + 1

\* __init__: self._quality = 3
DefaultQuality == 3

\* __init__, for a URL validate_url accepts
Constructed(u) ==
    /\ url = u
    /\ subtitle_url = None
    /\ _filename = None
    /\ _derive_filename = FALSE
    /\ _quality = DefaultQuality
    /\ medias = NoMapping
    /\ videos_by_size = <<>>
    /\ ret = [op |-> "__init__"] @@ Returned(None)
    /\ http = <<>>
    /\ disk = <<>>
    /\ quality_set = FALSE

Init ==
    /\ \E u \in {PageUrl, PageUrlWithoutId} : Constructed(u)
    /\ content_type \in ContentTypes
    /\ \E n \in 0..MaxHosts : json \in Bodies(SplitDescriptor(n, n))
    /\ content_length \in LifeTables

\* Size family: the URLs are all different and all str entries, half of them
\* in a first media entry and the rest in a second; the server reports any
\* size for each.
InitSizes ==
    \E n \in 0..MaxHosts :
        /\ json = [_mediaArray |-> SplitDescriptor(n, n \div 2)]
        /\ content_length \in [Hosts(n) -> 0..MaxSize]

\* Walk family: no media entry, or one whose stream entries are str and list
\* values with and without commas; the server reports the same size for both
\* URLs.
InitWalk ==
    /\ \/ json = [_mediaArray |-> <<>>]
       \/ \E k \in 0..MaxStreams : \E ss \in [1..k -> WalkEntries] :
             json = [_mediaArray |-> <<Medium(ss)>>]
    /\ content_length = [h \in Hosts(2) |-> 1]

InitGrouping ==
    /\ Constructed(PageUrl)
    /\ content_type = JsonContentType
    /\ (InitSizes \/ InitWalk)

server == <<content_type, json, content_length>>

SetQuality(q) ==
    /\ _quality' = q
    /\ quality_set' = TRUE
    /\ ret' = [op |-> "quality"] @@ Returned(None)
    /\ http' = <<>> /\ disk' = <<>> /\ medias' = NoMapping /\ videos_by_size' = <<>>
    /\ UNCHANGED <<url, subtitle_url, _filename, _derive_filename, server>>

SetFilename(f) ==
    /\ _filename' = SetterFilename(f)
    /\ ret' = [op |-> "filename"] @@ Returned(None)
    /\ http' = <<>> /\ disk' = <<>> /\ medias' = NoMapping /\ videos_by_size' = <<>>
    /\ UNCHANGED <<url, subtitle_url, _derive_filename, _quality, server, quality_set>>

SetDeriveFilename(b) ==
    /\ _derive_filename' = b
    /\ ret' = [op |-> "derive_filename"] @@ Returned(None)
    /\ http' = <<>> /\ disk' = <<>> /\ medias' = NoMapping /\ videos_by_size' = <<>>
    /\ UNCHANGED <<url, subtitle_url, _filename, _quality, server, quality_set>>

GetVideoUrl ==
    LET r == get_video_url IN
    /\ subtitle_url' = r.subtitle_url
    /\ ret' = [op |-> "get_video_url"] @@ r.out
    /\ http' = r.http
    /\ disk' = <<>>
    /\ medias' = r.medias
    /\ videos_by_size' = r.videos_by_size
    /\ UNCHANGED <<url, _filename, _derive_filename, _quality, server, quality_set>>

Download ==
    LET f == _determine_filename
        r == get_video_url
        w == download_by_video_url(f.filename, r.out.value)
    IN  /\ _filename' = f.filename
        /\ subtitle_url' = r.subtitle_url
        /\ medias' = r.medias
        /\ videos_by_size' = r.videos_by_size
        /\ IF r.out.exc # "none"
           THEN /\ ret' = [op |-> "download"] @@ r.out
                /\ http' = f.http \o r.http
                /\ disk' = <<>>
           ELSE /\ ret' = [op |-> "download"] @@ Returned(None)
                /\ http' = f.http \o r.http \o w.http
                /\ disk' = w.disk
        /\ UNCHANGED <<url, _derive_filename, _quality, server, quality_set>>

GetSubtitles ==
    LET r == get_subtitles IN
    /\ ret' = [op |-> "get_subtitles"] @@ r.out
    /\ http' = r.http
    /\ disk' = r.disk
    /\ medias' = NoMapping /\ videos_by_size' = <<>>
    /\ UNCHANGED <<url, subtitle_url, _filename, _derive_filename, _quality, server, quality_set>>

Next ==
    \/ \E q \in Qualities : SetQuality(q)
    \/ \E f \in FilenameInputs : SetFilename(f)
    \/ \E b \in BOOLEAN : SetDeriveFilename(b)
    \/ GetVideoUrl
    \/ Download
    \/ GetSubtitles

Spec == Init /\ [][Next]_vars

NextGrouping ==
    \/ \E q \in Qualities : SetQuality(q)
    \/ GetVideoUrl

SpecGrouping == InitGrouping /\ [][NextGrouping]_vars

----------------------------------------------------------------------------
(* Properties *)

Range(f) == {f[i] : i \in DOMAIN f}

\* the stream URLs whose size the last operation requested, in order
HeadUrls ==
    LET hs == SelectSeq(http, LAMBDA m : m.method = "HEAD")
    IN  [i \in 1..Len(hs) |-> hs[i].url]

HeadSizes == {ContentLengthOf(u) : u \in Range(HeadUrls)}

PositiveSizes == {s \in HeadSizes : s > 0}

\* the number of positive sizes above s
Above(s) == Cardinality({x \in PositiveSizes : x > s})

\* the size the server reports for the URL a tier maps to
TierSize(t) == ContentLengthOf(fix_url(medias[t]))

Resolved == ret.op = "get_video_url"

\* the operation got as far as grouping the streams
Grouped == ret.op \in {"get_video_url", "download"} /\ ret.line \notin {79, 91, 92}

\* C1: with three or more distinct positive sizes every tier maps to a URL of
\* one of the three largest: tier 3 to the largest, tier 2 to the second
\* largest, tier 1 to the third largest; a requested tier 1..3 returns that
\* URL with its scheme fixed.
C1_ThreeLargest ==
    (Resolved /\ Cardinality(PositiveSizes) >= 3) =>
        /\ DOMAIN medias = {1, 2, 3}
        /\ \A t \in 1..3 : TierSize(t) \in PositiveSizes /\ Above(TierSize(t)) = 3 - t
        /\ _quality \in 1..3 => ret.exc = "none" /\ ret.value = fix_url(medias[_quality])

C1_Witness ==
    /\ Resolved /\ Cardinality(PositiveSizes) >= 4
    /\ _quality = 1 /\ ret.exc = "none"
    /\ Above(ContentLengthOf(ret.value)) = 2

\* C2 as stated: with exactly two distinct positive sizes tier 1 and tier 2
\* both map to the smaller size's URL and tier 3 to the larger size's URL.
C2_AsStated ==
    (Resolved /\ Cardinality(PositiveSizes) = 2) =>
        /\ Above(TierSize(1)) = 1
        /\ Above(TierSize(2)) = 1
        /\ Above(TierSize(3)) = 0

\* C2 amended: with exactly two distinct positive sizes tier 1 maps to the
\* smaller size's URL and tiers 2 and 3 both map to the larger size's URL.
C2_TwoSizes ==
    (Resolved /\ Cardinality(PositiveSizes) = 2) =>
        /\ DOMAIN medias = {1, 2, 3}
        /\ \A t \in 1..3 : TierSize(t) \in PositiveSizes
        /\ Above(TierSize(1)) = 1
        /\ Above(TierSize(2)) = 0
        /\ Above(TierSize(3)) = 0

C2_Witness ==
    /\ Resolved /\ Cardinality(PositiveSizes) = 2
    /\ _quality = 2 /\ ret.exc = "none"
    /\ Above(ContentLengthOf(ret.value)) = 0

C4_AsStated ==
    (Resolved /\ PositiveSizes # {} /\ _quality \in 1..3
        /\ Cardinality(PositiveSizes) < _quality) =>
        ret.exc = "RuntimeError" /\ ret.line = 109

\* C4 amended: with at least one positive size the tier mapping has the keys
\* 1, 2 and 3 whatever the number of sizes, a requested tier 1..3 returns a
\* URL, and the RuntimeError of line 109 is raised only for a tier outside 1..3.
C4_TiersAlwaysPresent ==
    (Resolved /\ PositiveSizes # {}) =>
        /\ DOMAIN medias = {1, 2, 3}
        /\ _quality \in 1..3 => ret.exc = "none" /\ ret.value # None
        /\ _quality \notin 1..3 => ret.exc = "RuntimeError" /\ ret.line = 109

C4_Witness ==
    /\ Resolved /\ Cardinality(PositiveSizes) = 1
    /\ _quality = 3 /\ ret.exc = "none"
    /\ ContentLengthOf(ret.value) \in PositiveSizes

\* C5 as stated: while the quality was never set, resolving with three distinct
\* positive sizes returns the URL of the middle size.
C5_AsStated ==
    (Grouped /\ ~quality_set /\ Cardinality(PositiveSizes) = 3) =>
        Above(TierSize(_quality)) = 1

\* C5 amended: while the quality was never set the tier is 3, and resolving
\* with three distinct positive sizes selects the URL of the largest size.
C5_DefaultIsLargest ==
    /\ ~quality_set => _quality = 3
    /\ (Grouped /\ ~quality_set /\ Cardinality(PositiveSizes) = 3) =>
          /\ Above(TierSize(_quality)) = 0
          /\ Resolved => ret.value = fix_url(medias[_quality])
          /\ ret.op = "download" =>
                Len(disk) = 1 /\ disk[1].data.bytes_of = fix_url(medias[_quality])

C5_Witness ==
    /\ ret.op = "download" /\ ~quality_set /\ Cardinality(PositiveSizes) = 3
    /\ Len(disk) = 1 /\ Above(disk[1].data.length) = 0

\* the list-valued stream entries of the descriptor
ListEntries ==
    LET streams == UNION {Range(m._mediaStreamArray) : m \in Range(json._mediaArray)}
    IN  {st._stream : st \in {e \in streams : e._stream.type = "list"}}

\* C6 as stated: an entry with a comma is never asked for its size, and the
\* elements without a comma of a list are, whatever else the list holds.
C6_AsStated ==
    Resolved =>
        /\ \A u \in Range(HeadUrls) : ~HasComma(u)
        /\ \A x \in ListEntries : \A i \in 1..Len(x.val) :
              ~HasComma(x.val[i]) => fix_url(x.val[i]) \in Range(HeadUrls)

C8_AsStated ==
    ret.op = "get_subtitles" =>
        IF Falsy(subtitle_url)
        THEN ret.exc = "RuntimeError" /\ ret.line = 201
        ELSE /\ ret.exc = "none"
             /\ http = <<Get(subtitle_url)>>
             /\ Len(disk) = 1 /\ disk[1].data = SubtitleText(subtitle_url)
             /\ disk[1].path = splitext0(_filename) \o <<".", "srt">>

\* C9: only positive sizes reach the tier mapping, one or two of them are
\* enough to build it, and with none resolving raises and returns no URL,
\* whatever tier is requested.
C9_PositiveSizesOnly ==
    Resolved =>
        /\ PositiveSizes = {} =>
              ret.exc \notin {"none"} /\ ret.value = None /\ medias = NoMapping
        /\ PositiveSizes # {} =>
              /\ DOMAIN medias = {1, 2, 3}
              /\ \A t \in 1..3 : TierSize(t) \in PositiveSizes

C9_Witness ==
    /\ Resolved /\ HeadUrls # <<>> /\ PositiveSizes = {}
    /\ ret.exc = "IndexError" /\ _quality = 1

\* the last URL, in request order, for which the server reported size s
LastWithSize(s) ==
    HeadUrls[CHOOSE i \in 1..Len(HeadUrls) :
                /\ ContentLengthOf(HeadUrls[i]) = s
                /\ \A j \in (i + 1)..Len(HeadUrls) : ContentLengthOf(HeadUrls[j]) # s]

\* C10: the size mapping holds one URL per reported size, the one requested
\* last at that size, and a tier maps to the URL kept for its size.
C10_LastWriteWins ==
    Resolved =>
        /\ DOMAIN videos_by_size = HeadSizes
        /\ \A s \in HeadSizes : fix_url(videos_by_size[s]) = LastWithSize(s)
        /\ \A t \in DOMAIN medias : medias[t] = videos_by_size[TierSize(t)]

C10_Witness ==
    /\ Resolved /\ ret.exc = "none"
    /\ \E i, j \in 1..Len(HeadUrls) :
          /\ i < j /\ HeadUrls[i] # HeadUrls[j]
          /\ ContentLengthOf(HeadUrls[i]) = ContentLengthOf(HeadUrls[j])
          /\ ret.value = HeadUrls[j]
          /\ \E k \in 1..Len(HeadUrls) : ContentLengthOf(HeadUrls[k]) # ContentLengthOf(HeadUrls[j])

====
